---- MODULE Spec2Model ----
(***************************************************************************)
(* Verification model of the YouTube acquisition pipeline                  *)
(* (mcp/Youtube_mcp_server.py, mcp/youtube_download_menudrive.py), the     *)
(* retrying MCP connector (mcp/YouTube_MCP_Autogen_based_client.py) and    *)
(* the event logger (kg_pipeline/client_logger.py).                        *)
(*                                                                         *)
(* The four parts do not share state.  Each has its own next-state         *)
(* relation and specification over the same variables:                     *)
(*   Spec         the acquisition pipeline and its artifact store          *)
(*   SpecTools    the pipeline together with the MCP tools that call it    *)
(*   SpecRaces    two concurrent ensure_video_content tasks on one store   *)
(*   SpecFair     Spec with every run in progress taking its next step     *)
(*   SpecConnect  RetryingMCPClient                                        *)
(*   SpecLog      log_event                                                *)
(*   SpecStreams  log_event handling the events of two streams             *)
(*   SpecClean    clean_result                                             *)
(***************************************************************************)
EXTENDS Integers, Sequences, FiniteSets, TLC

VARIABLES
    \* ---- artifact store and pipeline run ----
    disk,       \* disk[id][base]: artifacts present in directory <root>/<base>/<id>
    pipe,       \* which pipeline the current run executes: "none", "server", "cli"
    vid,        \* identifier of the current run
    base,       \* base folder the run was given (server: always "videos")
    folder,     \* base folder of the run's working directory, "" before Locating
    located,    \* TRUE when Locating found an existing directory
    pc,         \* position of the current run
    calls,      \* calls[stage]: provider invocations made by the current run
    wrote,      \* artifacts written (created or rewritten) by the current run
    failedAt,   \* stage whose failure ended or degraded the current run, or "none"
    startDisk,  \* disk[vid] when the current run started
    prevRun,    \* summary of the run that finished immediately before the current one
    running,    \* stages of the current run whose function has been called and not returned
    order,      \* the stages of the current run in the order their functions were called
    outs,       \* outs[stage]: what the provider did when the current run invoked it
    raisedErr,  \* the exception the current run raised to its caller, outermost message first
    saved,      \* how the current run persisted the generator's output: form and warning
    resp,       \* the tool that called ensure_video_content and what it returned
    toolCalls,  \* generator invocations made by the tool itself, after the run
    \* ---- RetryingMCPClient ----
    max_retries, \* self.max_retries
    tools,       \* self.tools: [none |-> TRUE] or [none |-> FALSE, list |-> ...]
    cpc,         \* position of the connect() call in progress, or how the last one ended
    attempt,     \* the loop variable of connect()
    ccalls,      \* calls of mcp_server_tools made by the current connect() call
    sleeps,      \* asyncio.sleep(retry_delay) waits of the current connect() call
    errs,        \* the errors of the failed attempts of the current connect() call
    result,      \* what the last connect() call returned or raised
    got,         \* what the last get_tools() call returned or raised
    gets,        \* get_tools() calls made on this instance
    connects,    \* connect() calls started on this instance
    okConnects,  \* connect() calls of this instance that returned a capability list
    \* ---- log_event ----
    lastToolResult, console, logfile, trace,
    stream,     \* the conversation stream whose events are being handled
    \* ---- clean_result ----
    payload, cleaned, cleanPc,
    \* ---- concurrent ensure_video_content tasks ----
    tasks,      \* tasks[t]: identifier, position and download history of task t
    overlapped, \* TRUE once a task began while another was running for its identifier
    downloads   \* downloads[id]: downloads of {id}.mkv the provider has completed

pipeVars == <<disk, pipe, vid, base, folder, located, pc, calls, wrote, failedAt,
              startDisk, prevRun, running, order, outs, raisedErr, saved, resp,
              toolCalls>>
connVars == <<max_retries, tools, cpc, attempt, ccalls, sleeps, errs, result,
              got, gets, connects, okConnects>>
logVars == <<lastToolResult, console, logfile, trace, stream>>
cleanVars == <<payload, cleaned, cleanPc>>
raceVars == <<tasks, overlapped, downloads>>
vars == <<pipeVars, connVars, logVars, cleanVars, raceVars>>

(***************************************************************************)
(* Artifact store                                                          *)
(***************************************************************************)
Ids == {"v1", "v2"}
\* Base folders under the output root.  The server always works in
\* <root>/videos/<id>; the menu-driven downloader is also given playlist and
\* channel folders.
Bases == {"videos", "playlists"}
Stages == {"download", "transcript", "metadata", "summary"}
Artifacts == {"media", "transcript", "metadata", "summary"}

\* The artifact a stage produces: {id}.mkv, {id}_transcript.txt,
\* {id}_metadata.json, {id}.json.
ArtifactOf(stage) ==
    CASE stage = "download" -> "media"
      [] stage = "transcript" -> "transcript"
      [] stage = "metadata" -> "metadata"
      [] stage = "summary" -> "summary"

StageIndex(stage) ==
    CASE stage = "download" -> 1
      [] stage = "transcript" -> 2
      [] stage = "metadata" -> 3
      [] stage = "summary" -> 4

NoFiles == [b \in Bases |-> {}]
NoCalls == [s \in Stages |-> 0]
NoOuts == [s \in Stages |-> "none"]
NoResp == [tool |-> "none", isError |-> FALSE, raised |-> FALSE]
NotSaved == [form |-> "none", warned |-> FALSE]
NoRun == [pipe |-> "none", vid |-> "v1", end |-> "none", failedAt |-> "none",
          wrote |-> {}, located |-> FALSE]

\* is_video_downloaded: the directories of the walk that hold {id}.mkv.  The
\* code returns the first one in os.walk order, "" (here: the empty set) if none.
IsVideoDownloadedNever(files) == {}

\* The directories that hold {id}.mkv next to a finished {id}.json.
IsVideoDownloadedWithSummary(files) ==
    {b \in Bases : "media" \in files[b] /\ "summary" \in files[b]}

IsVideoDownloaded(files) == {b \in Bases : "media" \in files[b]}

\* is_video_already_downloaded: the directories that hold both {id}.json and
\* {id}.mkv.
IsVideoAlreadyDownloaded(files) ==
    {b \in Bases : "summary" \in files[b] /\ "media" \in files[b]}

\* A stage function's result: the files of the working directory afterwards,
\* whether the provider was invoked, whether the artifact file was written,
\* how the function ended ("path", "none" for a None return, "raise"), and
\* the exception it raised: its message, outermost prefix first, <<>> if none.
StageResult(files, called, written, how, err) ==
    [files |-> files, called |-> called, written |-> written, how |-> how, err |-> err]

(***************************************************************************)
(* Stage functions of Youtube_mcp_server.py.  dir is the set of artifacts  *)
(* in the working directory, out the provider's outcome.                   *)
(***************************************************************************)
DownloadOutcomes == {"ok", "error", "no_ytdlp"}
TranscriptOutcomes == {"ok", "unavailable", "error"}
MetadataOutcomes == {"ok", "http_error", "no_items"}
\* The generator returns text that parses as JSON, text that does not, or
\* fails; or the prompt template is missing.
SummaryOutcomes == {"ok_json", "ok_text", "error", "no_template"}
Generated == {"ok_json", "ok_text"}

download_video(dir, out) ==
    IF out = "no_ytdlp"
    THEN StageResult(dir, FALSE, FALSE, "raise", <<"yt-dlp is not installed">>)
    ELSE IF "media" \in dir THEN StageResult(dir, FALSE, FALSE, "path", <<>>)
    ELSE IF out = "ok" THEN StageResult(dir \cup {"media"}, TRUE, TRUE, "path", <<>>)
    ELSE StageResult(dir, TRUE, FALSE, "raise",
                     <<"Failed to download video", "CalledProcessError">>)

download_transcript(dir, out) ==
    IF "transcript" \in dir THEN StageResult(dir, FALSE, FALSE, "path", <<>>)
    ELSE IF out = "ok" THEN StageResult(dir \cup {"transcript"}, TRUE, TRUE, "path", <<>>)
    ELSE StageResult(dir, TRUE, FALSE, "none", <<>>)

\* fetch_metadata that removes the working directory's files when it fails.
fetch_metadataRollback(dir, out) ==
    IF "metadata" \in dir THEN StageResult(dir, FALSE, FALSE, "path", <<>>)
    ELSE IF out = "ok" THEN StageResult(dir \cup {"metadata"}, TRUE, TRUE, "path", <<>>)
    ELSE StageResult({}, TRUE, FALSE, "raise", <<"Failed to fetch video metadata">>)

fetch_metadata(dir, out) ==
    IF "metadata" \in dir THEN StageResult(dir, FALSE, FALSE, "path", <<>>)
    ELSE IF out = "ok" THEN StageResult(dir \cup {"metadata"}, TRUE, TRUE, "path", <<>>)
    ELSE IF out = "http_error"
    THEN StageResult(dir, TRUE, FALSE, "raise",
                     <<"Failed to fetch video metadata", "RequestException">>)
    ELSE StageResult(dir, TRUE, FALSE, "raise", <<"No video data found for ID">>)

\* generate_summary that does not read {id}_metadata.json.
generate_summaryNoMetadata(dir, out) ==
    IF "summary" \in dir THEN StageResult(dir, FALSE, FALSE, "path", <<>>)
    ELSE IF out \in Generated
    THEN StageResult(dir \cup {"summary"}, TRUE, TRUE, "path", <<>>)
    ELSE StageResult(dir, out = "error", FALSE, "raise", <<"Failed to generate summary">>)

generate_summary(dir, out) ==
    IF "summary" \in dir THEN StageResult(dir, FALSE, FALSE, "path", <<>>)
    ELSE IF "metadata" \notin dir
    THEN StageResult(dir, FALSE, FALSE, "raise",
                     <<"Failed to generate summary", "FileNotFoundError metadata">>)
    ELSE IF out = "no_template"
    THEN StageResult(dir, FALSE, FALSE, "raise",
                     <<"Failed to generate summary", "Prompt template not found">>)
    ELSE IF out \in Generated
    THEN StageResult(dir \cup {"summary"}, TRUE, TRUE, "path", <<>>)
    ELSE StageResult(dir, TRUE, FALSE, "raise",
                     <<"Failed to generate summary", "Gemini error">>)

\* ensure_video_content: except Exception as e: raise RuntimeError(f"Failed to
\* ensure video content: {str(e)}")
WrapEnsure(err) == <<"Failed to ensure video content">> \o err

(***************************************************************************)
(* Stage functions of youtube_download_menudrive.py.                       *)
(***************************************************************************)
CliDownloadOutcomes == {"ok", "error"}
CliMetadataOutcomes == {"ok", "error"}
CliSummaryOutcomes == {"ok_json", "ok_text", "error", "no_template"}

cli_download_video(dir, out) ==
    IF "media" \in dir THEN StageResult(dir, FALSE, FALSE, "path", <<>>)
    ELSE IF out = "ok" THEN StageResult(dir \cup {"media"}, TRUE, TRUE, "path", <<>>)
    ELSE StageResult(dir, TRUE, FALSE, "none", <<>>)

cli_download_transcript(dir, out) ==
    IF "transcript" \in dir THEN StageResult(dir, FALSE, FALSE, "path", <<>>)
    ELSE IF out = "ok" THEN StageResult(dir \cup {"transcript"}, TRUE, TRUE, "path", <<>>)
    ELSE StageResult(dir, TRUE, FALSE, "none", <<>>)

\* fetch_youtube_metadata never raises ({} on any failure) and process_video
\* writes {id}_metadata.json with whatever it returned, without an
\* existence test.
cli_fetch_and_write_metadata(dir, out) ==
    StageResult(dir \cup {"metadata"}, TRUE, TRUE, "path", <<>>)

\* The generation block of process_video: read_prompt_template (outside the
\* try: a missing template raises out of process_video), the stream, then
\* the write of {id}.json (structured when the text parses, raw otherwise);
\* any exception of the stream is logged and swallowed.
cli_generate_summary(dir, out) ==
    IF out = "no_template"
    THEN StageResult(dir, FALSE, FALSE, "raise", <<"FileNotFoundError template">>)
    ELSE IF out = "error" THEN StageResult(dir, TRUE, FALSE, "none", <<>>)
    ELSE StageResult(dir \cup {"summary"}, TRUE, TRUE, "path", <<>>)

\* How the generator's text reaches {id}.json.  process_video parses it:
\* json.dump of the parsed value, or the raw text and a logged warning.
\* generate_summary writes the text as it is and logs no warning.
SavedAs(p, out) ==
    IF out = "ok_json" THEN [form |-> "structured", warned |-> FALSE]
    ELSE [form |-> "raw", warned |-> (p = "cli")]

(***************************************************************************)
(* Pipeline runs.  One run at a time; a run is a sequence of steps, one    *)
(* per stage, because each stage's provider outcome is an input of its     *)
(* own.                                                                    *)
(***************************************************************************)
Terminal == {"complete", "raised", "incomplete"}

PipeInit ==
    /\ disk = [i \in Ids |-> NoFiles]
    /\ pipe = "none"
    /\ vid = "v1"
    /\ base = "videos"
    /\ folder = ""
    /\ located = FALSE
    /\ pc = "idle"
    /\ calls = NoCalls
    /\ wrote = {}
    /\ failedAt = "none"
    /\ startDisk = NoFiles
    /\ prevRun = NoRun
    /\ running = {}
    /\ order = <<>>
    /\ outs = NoOuts
    /\ raisedErr = <<>>
    /\ saved = NotSaved
    /\ resp = NoResp
    /\ toolCalls = 0

\* The record kept of a finished run.
RunSummary ==
    IF pc = "idle" THEN NoRun
    ELSE [pipe |-> pipe, vid |-> vid, end |-> pc, failedAt |-> failedAt,
          wrote |-> wrote, located |-> located]

BeginRun(p, id, b) ==
    /\ pc \in {"idle"} \cup Terminal
    /\ prevRun' = RunSummary
    /\ pipe' = p
    /\ vid' = id
    /\ base' = b
    /\ folder' = ""
    /\ located' = FALSE
    /\ pc' = "locating"
    /\ calls' = NoCalls
    /\ wrote' = {}
    /\ failedAt' = "none"
    /\ startDisk' = disk[id]
    /\ running' = {}
    /\ order' = <<>>
    /\ outs' = NoOuts
    /\ raisedErr' = <<>>
    /\ saved' = NotSaved
    /\ resp' = NoResp
    /\ toolCalls' = 0
    /\ UNCHANGED <<disk, connVars, logVars, cleanVars, raceVars>>

\* The order of the stage calls in ensure_video_content and process_video,
\* and the position of a run that is at (or inside) the call of a stage.
StageOrder == <<"download", "transcript", "metadata", "summary">>

PcOf(stage) == IF stage = "download" THEN "downloading" ELSE stage

StagePcs == {PcOf(s) : s \in Stages}

StageAt(p) == CHOOSE s \in Stages : PcOf(s) = p

\* Where a run goes when a stage function has returned: metadata before
\* transcript.
AfterStageMetadataFirst(stage) ==
    CASE stage = "download" -> "metadata"
      [] stage = "metadata" -> "transcript"
      [] stage = "transcript" -> "summary"
      [] stage = "summary" -> "complete"

\* A run that goes back to download_video after the transcript stage.
AfterStageBackToDownload(stage) ==
    CASE stage = "download" -> "transcript"
      [] stage = "transcript" -> PcOf("download")
      [] stage = "metadata" -> "summary"
      [] stage = "summary" -> "complete"

\* Where a run goes when a stage function has returned: the statement after
\* the call, which is the call of the next stage, or the return.
AfterStage(stage) ==
    IF StageIndex(stage) = Len(StageOrder) THEN "complete"
    ELSE PcOf(StageOrder[StageIndex(stage) + 1])

\* The run calls the stage function its position is at (in
\* ensure_video_content: await asyncio.to_thread(f, video_id, folder)).
EnterStage ==
    /\ pc \in StagePcs
    /\ StageAt(pc) \notin running
    /\ running' = running \cup {StageAt(pc)}
    /\ order' = Append(order, StageAt(pc))
    /\ UNCHANGED <<disk, pipe, vid, base, folder, located, pc, calls, wrote, failedAt,
                   startDisk, prevRun, outs, raisedErr, saved, resp, toolCalls>>
    /\ UNCHANGED <<connVars, logVars, cleanVars, raceVars>>

\* The stage function returns or raises.  r is its result for the provider
\* outcome out: the directory, the call count, the artifacts written, and
\* where the run goes: on after a path, to nonePc after a None return, out of
\* the run after an exception (which ensure_video_content wraps).
StageStep(stage, out, r, nonePc) ==
    /\ stage \in running
    /\ running' = running \ {stage}
    /\ disk' = [disk EXCEPT ![vid][folder] = r.files]
    /\ calls' = [calls EXCEPT ![stage] = @ + (IF r.called THEN 1 ELSE 0)]
    /\ outs' = [outs EXCEPT ![stage] = IF r.called THEN out ELSE @]
    /\ wrote' = IF r.written THEN wrote \cup {ArtifactOf(stage)} ELSE wrote
    /\ saved' = IF stage = "summary" /\ r.written THEN SavedAs(pipe, out) ELSE saved
    /\ pc' = CASE r.how = "path" -> AfterStage(stage)
               [] r.how = "none" -> nonePc
               [] r.how = "raise" -> "raised"
    /\ failedAt' = IF pc' \in Terminal /\ r.how # "path" THEN stage ELSE failedAt
    /\ raisedErr' = IF r.how # "raise" THEN raisedErr
                    ELSE IF pipe = "server" THEN WrapEnsure(r.err) ELSE r.err
    /\ UNCHANGED <<pipe, vid, base, folder, located, startDisk, prevRun, order, resp,
                   toolCalls>>
    /\ UNCHANGED <<connVars, logVars, cleanVars, raceVars>>

\* ---- ensure_video_content (Youtube_mcp_server.py) ----
StartEnsure(id) == BeginRun("server", id, "videos")

EnsureLocate ==
    /\ pipe = "server" /\ pc = "locating"
    /\ LET found == IsVideoDownloaded(disk[vid]) IN
         IF found # {}
         THEN /\ \E f \in found : folder' = f
              /\ located' = TRUE
              /\ pc' = "complete"
         ELSE /\ folder' = "videos"
              /\ located' = FALSE
              /\ pc' = PcOf(StageOrder[1])
    /\ UNCHANGED <<disk, pipe, vid, base, calls, wrote, failedAt, startDisk, prevRun,
                   running, order, outs, raisedErr, saved, resp, toolCalls>>
    /\ UNCHANGED <<connVars, logVars, cleanVars, raceVars>>

EnsureDownload ==
    /\ pipe = "server" /\ pc = "downloading"
    /\ \E out \in DownloadOutcomes :
         StageStep("download", out, download_video(disk[vid][folder], out), "raised")

\* download_transcript ending the run when it has no transcript.
EnsureTranscriptFatal ==
    /\ pipe = "server" /\ pc = "transcript"
    /\ \E out \in TranscriptOutcomes :
         StageStep("transcript", out, download_transcript(disk[vid][folder], out),
                   "raised")

EnsureTranscript ==
    /\ pipe = "server" /\ pc = "transcript"
    /\ \E out \in TranscriptOutcomes :
         StageStep("transcript", out, download_transcript(disk[vid][folder], out),
                   AfterStage("transcript"))

EnsureMetadata ==
    /\ pipe = "server" /\ pc = "metadata"
    /\ \E out \in MetadataOutcomes :
         StageStep("metadata", out, fetch_metadata(disk[vid][folder], out), "raised")

EnsureSummary ==
    /\ pipe = "server" /\ pc = "summary"
    /\ \E out \in SummaryOutcomes :
         StageStep("summary", out, generate_summary(disk[vid][folder], out), "raised")

\* ---- process_video (youtube_download_menudrive.py) ----
StartProcess(id, b) == BeginRun("cli", id, b)

ProcessLocate ==
    /\ pipe = "cli" /\ pc = "locating"
    /\ LET found == IsVideoAlreadyDownloaded(disk[vid]) IN
         IF found # {}
         THEN /\ \E f \in found : folder' = f
              /\ located' = TRUE
              /\ pc' = "complete"
         ELSE /\ folder' = base
              /\ located' = FALSE
              /\ pc' = PcOf(StageOrder[1])
    /\ UNCHANGED <<disk, pipe, vid, base, calls, wrote, failedAt, startDisk, prevRun,
                   running, order, outs, raisedErr, saved, resp, toolCalls>>
    /\ UNCHANGED <<connVars, logVars, cleanVars, raceVars>>

ProcessDownload ==
    /\ pipe = "cli" /\ pc = "downloading"
    /\ \E out \in CliDownloadOutcomes :
         StageStep("download", out, cli_download_video(disk[vid][folder], out),
                   "incomplete")

ProcessTranscript ==
    /\ pipe = "cli" /\ pc = "transcript"
    /\ \E out \in TranscriptOutcomes :
         StageStep("transcript", out, cli_download_transcript(disk[vid][folder], out),
                   AfterStage("transcript"))

ProcessMetadata ==
    /\ pipe = "cli" /\ pc = "metadata"
    /\ \E out \in CliMetadataOutcomes :
         StageStep("metadata", out, cli_fetch_and_write_metadata(disk[vid][folder], out),
                   AfterStage("metadata"))

ProcessSummary ==
    /\ pipe = "cli" /\ pc = "summary"
    /\ \E out \in CliSummaryOutcomes :
         StageStep("summary", out, cli_generate_summary(disk[vid][folder], out),
                   "incomplete")

Next ==
    \/ \E id \in Ids : StartEnsure(id)
    \/ EnsureLocate
    \/ EnterStage
    \/ EnsureDownload
    \/ EnsureTranscript
    \/ EnsureMetadata
    \/ EnsureSummary
    \/ \E id \in Ids, b \in Bases : StartProcess(id, b)
    \/ ProcessLocate
    \/ ProcessDownload
    \/ ProcessTranscript
    \/ ProcessMetadata
    \/ ProcessSummary

(***************************************************************************)
(* The MCP tools of Youtube_mcp_server.py.  Each awaits                    *)
(* ensure_video_content and then acts on the folder it returned; an        *)
(* exception of either part becomes a response marked isError.  What the   *)
(* tool does after the run is one step.                                    *)
(***************************************************************************)
Tools == {"download_youtube_content", "summarize_youtube_video", "extract_key_moments",
          "ask_about_youtube_video"}
AskOutcomes == {"ok", "error"}

\* ensure_video_content has returned or raised to a tool that has not
\* answered yet.
AwaitingTool == pipe = "server" /\ pc \in {"complete", "raised"} /\ resp = NoResp

ToolFrame ==
    /\ UNCHANGED <<pipe, vid, base, folder, located, pc, calls, wrote, failedAt,
                   startDisk, prevRun, running, order, outs, raisedErr, saved>>
    /\ UNCHANGED <<connVars, logVars, cleanVars, raceVars>>

\* A tool whose exception leaves the tool function instead of being answered.
ToolResponseUncaught(tool, failed) ==
    [tool |-> tool, isError |-> FALSE, raised |-> failed]

\* What a tool gives its caller: the success dictionary, or, from its
\* except Exception handler (and from the explicit early return of
\* extract_key_moments), a dictionary with "isError": True.  Nothing is raised.
ToolResponse(tool, failed) ==
    [tool |-> tool, isError |-> failed, raised |-> FALSE]

DownloadTool ==
    /\ AwaitingTool
    /\ resp' = ToolResponse("download_youtube_content", pc = "raised")
    /\ UNCHANGED <<disk, toolCalls>>
    /\ ToolFrame

\* summarize_youtube_video that answers from the run alone, without looking
\* for {id}.json.
SummarizeToolNoCompensation ==
    /\ AwaitingTool
    /\ resp' = ToolResponse("summarize_youtube_video", pc = "raised")
    /\ UNCHANGED <<disk, toolCalls>>
    /\ ToolFrame

\* if not os.path.exists(summary_path): summary_path = generate_summary(...)
SummarizeTool ==
    /\ AwaitingTool
    /\ IF pc = "raised"
       THEN /\ resp' = ToolResponse("summarize_youtube_video", TRUE)
            /\ UNCHANGED <<disk, toolCalls>>
       ELSE IF "summary" \in disk[vid][folder]
       THEN /\ resp' = ToolResponse("summarize_youtube_video", FALSE)
            /\ UNCHANGED <<disk, toolCalls>>
       ELSE \E out \in SummaryOutcomes :
              LET r == generate_summary(disk[vid][folder], out) IN
              /\ disk' = [disk EXCEPT ![vid][folder] = r.files]
              /\ toolCalls' = toolCalls + (IF r.called THEN 1 ELSE 0)
              /\ resp' = ToolResponse("summarize_youtube_video", r.how # "path")
    /\ ToolFrame

KeyMomentsTool ==
    /\ AwaitingTool
    /\ resp' = ToolResponse("extract_key_moments",
                            pc = "raised" \/ "transcript" \notin disk[vid][folder])
    /\ UNCHANGED <<disk, toolCalls>>
    /\ ToolFrame

AskTool ==
    /\ AwaitingTool
    /\ \E out \in AskOutcomes :
         resp' = ToolResponse("ask_about_youtube_video", pc = "raised" \/ out = "error")
    /\ UNCHANGED <<disk, toolCalls>>
    /\ ToolFrame

NextTools ==
    \/ \E id \in Ids : StartEnsure(id)
    \/ EnsureLocate
    \/ EnterStage
    \/ EnsureDownload
    \/ EnsureTranscript
    \/ EnsureMetadata
    \/ EnsureSummary
    \/ \E id \in Ids, b \in Bases : StartProcess(id, b)
    \/ ProcessLocate
    \/ ProcessDownload
    \/ ProcessTranscript
    \/ ProcessMetadata
    \/ ProcessSummary
    \/ DownloadTool
    \/ SummarizeTool
    \/ KeyMomentsTool
    \/ AskTool

(***************************************************************************)
(* RetryingMCPClient                                                       *)
(***************************************************************************)
\* Largest max_retries an instance is constructed with, and the number of
\* connect() calls made on one instance.
RetryBound == 3
\* The default of the max_retries parameter of __init__.
DefaultMaxRetries == 3
MaxConnects == 2
MaxGets == 2

\* What mcp_server_tools can raise, and the capability lists it can return.
Errors == {"e1", "e2"}
ToolLists == {<<>>, <<"download_youtube_content">>,
              <<"download_youtube_content", "summarize_youtube_video">>}

None == [none |-> TRUE, list |-> <<>>]
Some(l) == [none |-> FALSE, list |-> l]
NoResult == [kind |-> "none", list |-> <<>>, err |-> ""]

\* Python truthiness of self.tools: None and the empty list are falsy.
Truthy(t) == ~t.none /\ Len(t.list) > 0

ConnInit ==
    /\ max_retries \in (0 - 1)..RetryBound
    /\ tools = None
    /\ cpc = "idle"
    /\ attempt = 0
    /\ ccalls = 0
    /\ sleeps = 0
    /\ errs = <<>>
    /\ result = NoResult
    /\ got = NoResult
    /\ gets = 0
    /\ connects = 0
    /\ okConnects = 0

\* for attempt in range(1, self.max_retries + 1): whether the loop body runs
\* for this value of attempt.
InRange(a, n) == a <= n

\* if attempt < self.max_retries: sleep and go round again; else: raise.
RetriesRemainInclusive(a, n) == a <= n

\* The test when the last attempt is made without a wait before it.
RetriesRemainBeforeLast(a, n) == a < n - 1

RetriesRemain(a, n) == a < n

\* The error a bare `raise` in the except block re-raises: the one just caught.
RaisedErrorFirst(es) == es[1]

RaisedError(es) == es[Len(es)]

\* connect() is entered: the loop starts at attempt 1, and falls through
\* (returning None) when the range is empty.
ConnectCall ==
    /\ cpc \in {"idle", "returned", "raised", "fellthrough"}
    /\ connects < MaxConnects
    /\ connects' = connects + 1
    /\ attempt' = 1
    /\ ccalls' = 0
    /\ sleeps' = 0
    /\ errs' = <<>>
    /\ IF InRange(1, max_retries)
       THEN cpc' = "attempting" /\ result' = NoResult
       ELSE cpc' = "fellthrough" /\ result' = [kind |-> "None", list |-> <<>>, err |-> ""]
    /\ UNCHANGED <<max_retries, tools, got, gets, okConnects>>
    /\ UNCHANGED <<pipeVars, logVars, cleanVars, raceVars>>

\* self.tools = await mcp_server_tools(server_params) returns l.
AttemptSucceeds ==
    /\ cpc = "attempting"
    /\ \E l \in ToolLists :
         /\ tools' = Some(l)
         /\ result' = [kind |-> "tools", list |-> l, err |-> ""]
    /\ ccalls' = ccalls + 1
    /\ cpc' = "returned"
    /\ okConnects' = okConnects + 1
    /\ UNCHANGED <<max_retries, attempt, sleeps, errs, got, gets, connects>>
    /\ UNCHANGED <<pipeVars, logVars, cleanVars, raceVars>>

\* mcp_server_tools raises e: the except block.
AttemptFails ==
    /\ cpc = "attempting"
    /\ ccalls' = ccalls + 1
    /\ \E e \in Errors :
         LET es == Append(errs, e) IN
         /\ errs' = es
         /\ IF RetriesRemain(attempt, max_retries)
            THEN cpc' = "sleeping" /\ result' = result
            ELSE /\ cpc' = "raised"
                 /\ result' = [kind |-> "error", list |-> <<>>, err |-> RaisedError(es)]
    /\ UNCHANGED <<max_retries, tools, attempt, sleeps, got, gets, connects, okConnects>>
    /\ UNCHANGED <<pipeVars, logVars, cleanVars, raceVars>>

\* await asyncio.sleep(self.retry_delay) returns; the loop takes the next
\* value of attempt, or ends.
SleepDone ==
    /\ cpc = "sleeping"
    /\ sleeps' = sleeps + 1
    /\ attempt' = attempt + 1
    /\ IF InRange(attempt + 1, max_retries)
       THEN cpc' = "attempting" /\ result' = result
       ELSE cpc' = "fellthrough" /\ result' = [kind |-> "None", list |-> <<>>, err |-> ""]
    /\ UNCHANGED <<max_retries, tools, ccalls, errs, got, gets, connects, okConnects>>
    /\ UNCHANGED <<pipeVars, logVars, cleanVars, raceVars>>

\* get_tools(): raises when self.tools is falsy, returns it otherwise.  It
\* can be called at any time, also while connect() is suspended.
GetToolsImplicitConnect ==
    /\ gets < MaxGets
    /\ gets' = gets + 1
    /\ IF Truthy(tools)
       THEN /\ got' = [kind |-> "tools", list |-> tools.list, err |-> ""]
            /\ UNCHANGED <<tools, ccalls>>
       ELSE /\ \E l \in ToolLists :
                 /\ tools' = Some(l)
                 /\ got' = [kind |-> "tools", list |-> l, err |-> ""]
            /\ ccalls' = ccalls + 1
    /\ UNCHANGED <<max_retries, cpc, attempt, sleeps, errs, result, connects, okConnects>>
    /\ UNCHANGED <<pipeVars, logVars, cleanVars, raceVars>>

GetTools ==
    /\ gets < MaxGets
    /\ gets' = gets + 1
    /\ IF Truthy(tools)
       THEN got' = [kind |-> "tools", list |-> tools.list, err |-> ""]
       ELSE got' = [kind |-> "error", list |-> <<>>, err |-> "NotConnected"]
    /\ UNCHANGED <<max_retries, tools, cpc, attempt, ccalls, sleeps, errs, result,
                   connects, okConnects>>
    /\ UNCHANGED <<pipeVars, logVars, cleanVars, raceVars>>

NextConnect ==
    \/ ConnectCall
    \/ AttemptSucceeds
    \/ AttemptFails
    \/ SleepDone
    \/ GetTools

(***************************************************************************)
(* Text.  A string is a sequence of symbols: single characters, and, where *)
(* only their presence matters, whole words (a type name inside the        *)
(* string form of an event).                                               *)
(***************************************************************************)
NL == "\n"
IsSpace(c) == c \in {" ", NL, "\t"}

RECURSIVE LStrip(_)
LStrip(s) == IF s = <<>> \/ ~IsSpace(Head(s)) THEN s ELSE LStrip(Tail(s))

RECURSIVE RStrip(_)
RStrip(s) ==
    IF s = <<>> \/ ~IsSpace(s[Len(s)]) THEN s ELSE RStrip(SubSeq(s, 1, Len(s) - 1))

\* str.strip()
Strip(s) == RStrip(LStrip(s))

\* sep.join(parts), parts a sequence of strings
RECURSIVE Join(_, _)
Join(sep, parts) ==
    IF parts = <<>> THEN <<>>
    ELSE IF Len(parts) = 1 THEN parts[1]
    ELSE parts[1] \o sep \o Join(sep, Tail(parts))

\* x in s for a one-symbol x
Contains(s, x) == \E i \in 1..Len(s) : s[i] = x

(***************************************************************************)
(* Payloads: the values json.loads produces.  One record shape for all:    *)
(* kind "str" (str), "scalar" (str holds what str() renders: 1, None),     *)
(* "list" (items), "dict" (keys[i] maps to items[i], in insertion order).  *)
(***************************************************************************)
PStr(s) == [kind |-> "str", str |-> s, keys |-> <<>>, items |-> <<>>]
PScalar(s) == [kind |-> "scalar", str |-> s, keys |-> <<>>, items |-> <<>>]
PList(xs) == [kind |-> "list", str |-> <<>>, keys |-> <<>>, items |-> xs]
PDict(ks, xs) == [kind |-> "dict", str |-> <<>>, keys |-> ks, items |-> xs]

HasKey(d, k) == \E i \in 1..Len(d.keys) : d.keys[i] = k
Get(d, k) == d.items[CHOOSE i \in 1..Len(d.keys) : d.keys[i] = k]

\* repr(x): strings quoted, containers bracketed with ", " between members.
RECURSIVE PyRepr(_)
PyRepr(x) ==
    CASE x.kind = "str" -> <<"'">> \o x.str \o <<"'">>
      [] x.kind = "scalar" -> x.str
      [] x.kind = "list" ->
            <<"[">> \o Join(<<",", " ">>, [i \in 1..Len(x.items) |-> PyRepr(x.items[i])])
                   \o <<"]">>
      [] x.kind = "dict" ->
            <<"{">> \o Join(<<",", " ">>,
                           [i \in 1..Len(x.items) |->
                              <<"'", x.keys[i], "'", ":", " ">> \o PyRepr(x.items[i])])
                   \o <<"}">>

\* str(x): a string is itself, anything else its repr.
PyStr(x) == IF x.kind = "str" THEN x.str ELSE PyRepr(x)

\* clean_result with `text` tested before `content`.
RECURSIVE CleanResultTextFirst(_)
CleanResultTextFirst(r) ==
    CASE r.kind = "dict" ->
            IF HasKey(r, "text") THEN PyStr(Get(r, "text"))
            ELSE IF HasKey(r, "content")
            THEN IF Get(r, "content").kind = "list"
                 THEN Join(<<NL>>, [i \in 1..Len(Get(r, "content").items) |->
                                      CleanResultTextFirst(Get(r, "content").items[i])])
                 ELSE PyStr(Get(r, "content"))
            ELSE Join(<<NL>>, [i \in 1..Len(SelectSeq(r.items, LAMBDA v : v.kind = "str")) |->
                                 SelectSeq(r.items, LAMBDA v : v.kind = "str")[i].str])
      [] r.kind = "list" ->
            Join(<<NL>>, [i \in 1..Len(r.items) |-> CleanResultTextFirst(r.items[i])])
      [] r.kind = "str" -> Strip(r.str)
      [] OTHER -> PyStr(r)

\* clean_result
RECURSIVE CleanResult(_)
CleanResult(r) ==
    CASE r.kind = "dict" ->
            IF HasKey(r, "content")
            THEN IF Get(r, "content").kind = "list"
                 THEN Join(<<NL>>, [i \in 1..Len(Get(r, "content").items) |->
                                      CleanResult(Get(r, "content").items[i])])
                 ELSE PyStr(Get(r, "content"))
            ELSE IF HasKey(r, "text") THEN PyStr(Get(r, "text"))
            ELSE Join(<<NL>>, [i \in 1..Len(SelectSeq(r.items, LAMBDA v : v.kind = "str")) |->
                                 SelectSeq(r.items, LAMBDA v : v.kind = "str")[i].str])
      [] r.kind = "list" ->
            Join(<<NL>>, [i \in 1..Len(r.items) |-> CleanResult(r.items[i])])
      [] r.kind = "str" -> Strip(r.str)
      [] OTHER -> PyStr(r)

(***************************************************************************)
(* The payloads clean_result is applied to.                                *)
(***************************************************************************)
MaxStrLen == 2
MaxWidth == 2

Chars == {"a", " ", NL}
Strs == UNION {[1..n -> Chars] : n \in 0..MaxStrLen}
Scalars == {PScalar(<<"1">>), PScalar(<<"None">>)}
\* Values of mapping members and elements of sequences.
Vals == {PStr(<<"a">>), PStr(<<"b">>), PStr(<<" ", "a", " ">>), PScalar(<<"1">>)}
Keys == {"content", "text", "k1", "k2"}
KeySeqs == {ks \in UNION {[1..n -> Keys] : n \in 0..MaxWidth} :
              \A i, j \in 1..Len(ks) : i # j => ks[i] # ks[j]}
SimpleDicts == UNION {{PDict(ks, vs) : vs \in [1..Len(ks) -> Vals]} : ks \in KeySeqs}
\* Elements of the sequences: values, one-member mappings keyed content or
\* text, a mapping with neither key, and a nested sequence.
Items == Vals \cup {d \in SimpleDicts : Len(d.keys) = 1 /\ d.keys[1] \in {"content", "text"}}
              \cup {PDict(<<"k1">>, <<PStr(<<"b">>)>>)}
              \cup {PList(<<PStr(<<"a">>), PStr(<<" ", "a", " ">>)>>)}
Lists == {PList(xs) : xs \in UNION {[1..n -> Items] : n \in 0..MaxWidth}}
ContentDicts ==
    {PDict(<<"content">>, <<l>>) : l \in Lists}
    \cup {PDict(<<"content", "text">>, <<l, PStr(<<"b">>)>>) : l \in Lists}
    \cup {PDict(<<"text", "content">>, <<PStr(<<"b">>), l>>) : l \in Lists}
    \cup {PDict(<<"content">>, <<d>>) : d \in {x \in SimpleDicts : Len(x.keys) = 1}}
Payloads == {PStr(x) : x \in Strs} \cup Scalars \cup SimpleDicts \cup Lists
               \cup ContentDicts

CleanInit ==
    /\ payload \in Payloads
    /\ cleaned = <<>>
    /\ cleanPc = "call"

\* One call clean_result(payload).
CleanCall ==
    /\ cleanPc = "call"
    /\ cleaned' = CleanResult(payload)
    /\ cleanPc' = "done"
    /\ UNCHANGED <<payload, pipeVars, connVars, logVars, raceVars>>

NextClean == CleanCall

(***************************************************************************)
(* log_event                                                               *)
(***************************************************************************)
MaxEvents == 3

\* The strings the categorisation looks for in str(event), in the order of
\* the if/elif chain.
Markers == <<"UserInputRequestedEvent", "ToolCallRequestEvent", "ToolCallExecutionEvent",
             "ToolCallSummaryMessage", "TextMessage", "TaskResult">>

KindOf(marker) ==
    CASE marker = "UserInputRequestedEvent" -> "UserInputRequested"
      [] marker = "ToolCallRequestEvent" -> "ToolCallRequested"
      [] marker = "ToolCallExecutionEvent" -> "ToolCallExecuted"
      [] marker = "ToolCallSummaryMessage" -> "ToolCallSummary"
      [] marker = "TextMessage" -> "TextMessage"
      [] marker = "TaskResult" -> "TaskResult"
      [] OTHER -> "Other"

\* An event of the stream: its class name, whether it has a `content`
\* attribute, the text of that content (for a TaskResult: of its messages) as
\* it appears in str(event), and what json.loads makes of the content:
\* json = FALSE when it raises, parsed otherwise.
Ev(type, hasContent, raw, json, parsed) ==
    [type |-> type, hasContent |-> hasContent, raw |-> raw, json |-> json,
     parsed |-> parsed]
NoPayload == PScalar(<<"None">>)
Plain(type, raw) == Ev(type, TRUE, raw, FALSE, NoPayload)
Json(type, raw, p) == Ev(type, TRUE, raw, TRUE, p)

ExamplePayload ==
    PDict(<<"content">>,
          <<PList(<<PDict(<<"text">>, <<PStr(<<"a">>)>>),
                    PDict(<<"text">>, <<PStr(<<"b">>)>>)>>)>>)

LogEvents ==
    { Plain("ToolCallExecutionEvent", <<"r1">>),
      Plain("ToolCallExecutionEvent", <<"r2">>),
      Json("ToolCallExecutionEvent", <<"j1">>, ExamplePayload),
      Plain("ToolCallSummaryMessage", <<"r1">>),
      Json("ToolCallSummaryMessage", <<"j1">>, ExamplePayload),
      Plain("TextMessage", <<"r1">>),
      Plain("TextMessage", <<"ToolCallExecutionEvent">>),
      Json("TextMessage", <<"j2">>, PStr(<<" ", "a", NL>>)),
      Json("TextMessage", <<"j1">>, ExamplePayload),
      Plain("UserInputRequestedEvent", <<"r1">>),
      Plain("ToolCallRequestEvent", <<"r1">>),
      Ev("TaskResult", FALSE, <<"r1">>, FALSE, NoPayload),
      Ev("TaskResult", FALSE, <<"ToolCallRequestEvent">>, FALSE, NoPayload),
      Plain("HandoffMessage", <<" ", "r1">>) }

\* str(event): the content followed by the class name.
StrEvent(e) == e.raw \o <<e.type>>

\* The event classes whose content is a list of objects, not a string.
ListContentTypes == {"ToolCallRequestEvent", "ToolCallExecutionEvent"}

\* What json.loads raises in step 1: nothing when the content is JSON text;
\* TypeError when the content is not a string; JSONDecodeError when it is
\* other text, and for str(event) when there is no content attribute.
ParseError(e) ==
    IF e.hasContent /\ e.json THEN "none"
    ELSE IF e.hasContent /\ e.type \in ListContentTypes THEN "TypeError"
    ELSE "JSONDecodeError"

\* Whether the handler of step 1 catches the exception: except Exception.
CaughtJsonOnly(err) == err = "JSONDecodeError"

Caught(err) == TRUE

\* Step 1 of log_event: json.loads of event.content (of str(event) when there
\* is no content attribute, which is never JSON), clean_result of the parsed
\* value; on any exception clean_result(str(event)).
CleanOf(e) ==
    IF ParseError(e) = "none" THEN CleanResult(e.parsed)
    ELSE CleanResult(PStr(StrEvent(e)))

\* Step 2: the first marker of the chain found in str(event) decides.
RECURSIVE FirstMarker(_, _)
FirstMarker(s, i) ==
    IF i > Len(Markers) THEN "none"
    ELSE IF Contains(s, Markers[i]) THEN Markers[i]
    ELSE FirstMarker(s, i + 1)

Classify(e) == KindOf(FirstMarker(StrEvent(e), 1))

\* The kinds whose branch compares with the cell: ToolCallExecutionEvent only.
ToolKindsExecutedOnly == {"ToolCallExecuted"}

\* The kinds whose branch of the chain compares the clean text with
\* log_event._last_tool_result and stores it there.
ToolKinds == {"ToolCallExecuted", "ToolCallSummary"}

\* if clean == log_event._last_tool_result: return
IsDuplicateNever(cell, clean) == FALSE

IsDuplicate(cell, clean) == ~cell.none /\ cell.text = clean

NoneText == [none |-> TRUE, text |-> <<>>]

\* The cell after a call when every other branch clears it.
NextCellClearedByOthers(cell, kind, clean, silent) ==
    IF kind \notin ToolKinds THEN NoneText
    ELSE IF ~silent THEN [none |-> FALSE, text |-> clean] ELSE cell

\* The cell after a call: log_event._last_tool_result = clean in the two
\* tool-result branches, after the duplicate test; untouched otherwise.
NextCell(cell, kind, clean, silent) ==
    IF kind \in ToolKinds /\ ~silent THEN [none |-> FALSE, text |-> clean] ELSE cell

\* The line emitted when every kind is rendered as its clean text.
MsgOfCleanText(kind, clean) == clean

\* The line emitted for an event that is not suppressed.
MsgOf(kind, clean) ==
    CASE kind = "UserInputRequested" -> <<"[System]: Waiting for user input...">>
      [] kind = "ToolCallRequested" -> <<"[System]: Calling tool...">>
      [] kind = "ToolCallExecuted" -> <<"EXEC", " ">> \o clean
      [] kind = "ToolCallSummary" -> <<"DONE", " ">> \o clean
      [] kind = "TaskResult" -> <<"[System]: Task completed.">>
      [] OTHER -> clean

LogInit ==
    /\ lastToolResult = NoneText
    /\ console = <<>>
    /\ logfile = <<>>
    /\ trace = <<>>
    /\ stream = 1

\* Step 3: print when print_to_console is set, then logger.info.
ConsoleAfterDropped(out, msg, print_to_console) == out

ConsoleAfter(out, msg, print_to_console) ==
    IF print_to_console THEN Append(out, <<NL>> \o msg) ELSE out

\* One call log_event(logger, e, print_to_console).  An exception of step 1
\* that the handler does not catch leaves the function before any output.
LogEvent(e, print_to_console) ==
    LET raised == ParseError(e) # "none" /\ ~Caught(ParseError(e))
        clean == CleanOf(e)
        kind == Classify(e)
        suppressed == kind \in ToolKinds /\ IsDuplicate(lastToolResult, clean)
        silent == raised \/ suppressed
        msg == MsgOf(kind, clean)
    IN  /\ Len(trace) < MaxEvents
        /\ lastToolResult' = NextCell(lastToolResult, kind, clean, silent)
        /\ console' = IF silent THEN console
                       ELSE ConsoleAfter(console, msg, print_to_console)
        /\ logfile' = IF silent THEN logfile ELSE Append(logfile, msg)
        /\ trace' = Append(trace, [ev |-> e, flag |-> print_to_console, kind |-> kind,
                                    clean |-> clean, cellBefore |-> lastToolResult,
                                    printed |-> Len(console') - Len(console),
                                    logged |-> Len(logfile') - Len(logfile),
                                    raised |-> raised, stream |-> stream])
        /\ UNCHANGED <<stream, pipeVars, connVars, cleanVars, raceVars>>

NextLog == \E e \in LogEvents, print_to_console \in BOOLEAN : LogEvent(e, print_to_console)

\* A second conversation stream in the same process: the events handled
\* from now on are those of the other stream.  log_event itself is not told.
Streams == {1, 2}

SwitchStream ==
    /\ \E t \in Streams \ {stream} : stream' = t
    /\ UNCHANGED <<lastToolResult, console, logfile, trace>>
    /\ UNCHANGED <<pipeVars, connVars, cleanVars, raceVars>>

\* The client's loop, log_event(logger, event, print_to_console=True), over
\* the events of two streams.
NextStreams ==
    \/ \E e \in LogEvents : LogEvent(e, TRUE)
    \/ SwitchStream

(***************************************************************************)
(* Concurrent ensure_video_content calls.  The server handles tool calls   *)
(* as tasks of one event loop; a task runs without interruption up to an   *)
(* await, and each stage function runs in a worker thread                  *)
(* (asyncio.to_thread), so the stage functions of two tasks run at the     *)
(* same time.  No lock is taken anywhere.                                  *)
(***************************************************************************)
Tasks == {1, 2}

Idle == [id |-> "v1", pc |-> "idle", busy |-> FALSE, out |-> "none",
         located |-> FALSE, dl |-> "none"]

RaceInit ==
    /\ tasks = [t \in Tasks |-> Idle]
    /\ overlapped = FALSE
    /\ downloads = [i \in Ids |-> 0]

\* The stage functions of ensure_video_content and their providers' outcomes.
ServerStage(stage, dir, out) ==
    CASE stage = "download" -> download_video(dir, out)
      [] stage = "transcript" -> download_transcript(dir, out)
      [] stage = "metadata" -> fetch_metadata(dir, out)
      [] stage = "summary" -> generate_summary(dir, out)

ServerOutcomes(stage) ==
    CASE stage = "download" -> DownloadOutcomes
      [] stage = "transcript" -> TranscriptOutcomes
      [] stage = "metadata" -> MetadataOutcomes
      [] stage = "summary" -> SummaryOutcomes

\* The task is between its first step and its return.
Active(t) == tasks[t].pc \in Stages

\* Where a task goes when its stage function has ended: the next stage after
\* a path or a None, out of ensure_video_content after an exception.
TaskAfter(stage, how) ==
    IF how = "raise" THEN "raised"
    ELSE IF StageIndex(stage) = Len(StageOrder) THEN "complete"
    ELSE StageOrder[StageIndex(stage) + 1]

RaceFrame ==
    /\ UNCHANGED <<pipe, vid, base, folder, located, pc, calls, wrote, failedAt,
                   startDisk, prevRun, running, order, outs, raisedErr, saved, resp,
                   toolCalls>>
    /\ UNCHANGED <<connVars, logVars, cleanVars>>

\* Task t calls ensure_video_content for id and runs to its first await:
\* is_video_downloaded, then either the else branch (return) or the call of
\* download_video in a worker thread.
TaskEnsure(t, id) ==
    /\ tasks[t].pc = "idle"
    /\ LET found == IsVideoDownloaded(disk[id]) IN
         tasks' = [tasks EXCEPT ![t] =
                     [Idle EXCEPT !.id = id, !.located = (found # {}),
                                  !.pc = IF found # {} THEN "complete" ELSE StageOrder[1]]]
    /\ overlapped' = (overlapped \/ \E u \in Tasks \ {t} : Active(u) /\ tasks[u].id = id)
    /\ UNCHANGED <<disk, downloads>>
    /\ RaceFrame

\* The worker thread of task t runs the stage function up to its provider:
\* the function ends here when it finds its artifact or fails before the
\* provider; otherwise the provider is now running.
TaskStageCall(t) ==
    LET me == tasks[t]
        dir == disk[me.id]["videos"]
    IN  /\ Active(t) /\ ~me.busy
        /\ \E out \in ServerOutcomes(me.pc) :
             LET r == ServerStage(me.pc, dir, out) IN
             IF r.called
             THEN tasks' = [tasks EXCEPT ![t].busy = TRUE, ![t].out = out,
                                         ![t].dl = IF me.pc = "download" THEN "invoked" ELSE @]
             ELSE tasks' = [tasks EXCEPT ![t].pc = TaskAfter(me.pc, r.how),
                                         ![t].dl = IF me.pc = "download" /\ r.how = "path"
                                                   THEN "skipped" ELSE @]
        /\ UNCHANGED <<disk, overlapped, downloads>>
        /\ RaceFrame

\* The provider of task t's stage ends: the function writes its artifact (or
\* not) into the directory as it is now, and the task goes on.
TaskStageReturn(t) ==
    LET me == tasks[t]
        dir == disk[me.id]["videos"]
        r == ServerStage(me.pc, dir \ {ArtifactOf(me.pc)}, me.out)
    IN  /\ Active(t) /\ me.busy
        /\ disk' = [disk EXCEPT ![me.id]["videos"] = dir \cup r.files]
        /\ downloads' = IF me.pc = "download" /\ r.written
                        THEN [downloads EXCEPT ![me.id] = @ + 1] ELSE downloads
        /\ tasks' = [tasks EXCEPT ![t].pc = TaskAfter(me.pc, r.how), ![t].busy = FALSE,
                                  ![t].out = "none"]
        /\ UNCHANGED overlapped
        /\ RaceFrame

NextRaces ==
    \E t \in Tasks :
        \/ \E id \in Ids : TaskEnsure(t, id)
        \/ TaskStageCall(t)
        \/ TaskStageReturn(t)

(***************************************************************************)
(* Specifications                                                          *)
(***************************************************************************)
\* Every part starts in its initial state; a specification moves one part.
\* The parts it leaves alone are a client constructed with the default
\* max_retries and a clean_result call on the example payload.
DefaultClient == max_retries = DefaultMaxRetries /\ ConnInit
OnePayload == payload = ExamplePayload /\ cleaned = <<>> /\ cleanPc = "call"

Init == PipeInit /\ DefaultClient /\ LogInit /\ OnePayload /\ RaceInit
InitConnect == PipeInit /\ ConnInit /\ LogInit /\ OnePayload /\ RaceInit
InitLog == PipeInit /\ DefaultClient /\ LogInit /\ OnePayload /\ RaceInit
InitClean == PipeInit /\ DefaultClient /\ LogInit /\ CleanInit /\ RaceInit

Spec == Init /\ [][Next]_vars
SpecConnect == InitConnect /\ [][NextConnect]_vars
SpecLog == InitLog /\ [][NextLog]_vars
SpecStreams == InitLog /\ [][NextStreams]_vars
SpecClean == InitClean /\ [][NextClean]_vars
\* The pipeline together with the tools that call it.
SpecTools == Init /\ [][NextTools]_vars

SpecRaces == Init /\ [][NextRaces]_vars

\* The steps of a run in progress.  A run that has begun goes on executing:
\* each statement is followed by the next, and a stage function returns or
\* raises once its provider has.
RunStep ==
    \/ EnsureLocate \/ EnterStage
    \/ EnsureDownload \/ EnsureTranscript \/ EnsureMetadata \/ EnsureSummary
    \/ ProcessLocate
    \/ ProcessDownload \/ ProcessTranscript \/ ProcessMetadata \/ ProcessSummary

\* The pipeline, with every provider eventually returning or raising.
SpecFair == Init /\ [][Next]_vars /\ WF_vars(RunStep)

(***************************************************************************)
(* Properties of the acquisition pipeline (checked under Spec)             *)
(***************************************************************************)
\* The current run follows, with nothing in between, a run of the same
\* pipeline for the same identifier.
SecondRun == pc # "idle" /\ prevRun.pipe = pipe /\ prevRun.vid = vid

\* The artifacts of the identifier present under the root when the run began.
PresentAtStart == UNION {startDisk[b] : b \in Bases}

MissingAtStart == {s \in Stages : ArtifactOf(s) \notin PresentAtStart}

FirstMissing ==
    {s \in MissingAtStart : \A t \in MissingAtStart : StageIndex(s) <= StageIndex(t)}

\* C1: idempotence.  When the run before, of the same pipeline and for the
\* same identifier, ended Complete (with or without a transcript), the
\* current run invokes no provider and writes nothing: at every point of it
\* the call counts are zero and the identifier's directories are as they
\* were when it began.
C1_Idempotent ==
    (SecondRun /\ prevRun.end = "complete")
        => (calls = NoCalls /\ wrote = {} /\ disk[vid] = startDisk)

\* A second run that ended, after a first run that went through every stage
\* and found no transcript.
C1_Witness ==
    /\ SecondRun /\ prevRun.end = "complete" /\ ~prevRun.located
    /\ prevRun.wrote = {"media", "metadata", "summary"}
    /\ pc = "complete" /\ pipe = "server"
    /\ "transcript" \notin disk[vid][folder]

\* C2: after a run that wrote at least one artifact, the next run of the same
\* pipeline for the same identifier invokes no provider of a stage whose
\* artifact was present when it began, does not write that artifact again,
\* and invokes the provider of the first stage in stage order whose artifact
\* was missing.
C2_ResumesAtFirstMissing ==
    (SecondRun /\ prevRun.wrote # {} /\ pc \in Terminal)
        => /\ \A s \in Stages \ MissingAtStart :
                calls[s] = 0 /\ ArtifactOf(s) \notin wrote
           /\ \A s \in FirstMissing : calls[s] >= 1

\* C3: resume from failure.  When the run before, of ensure_video_content for
\* the same identifier, downloaded the media and then failed in
\* fetch_metadata, the current run, once ended, has not invoked the download
\* provider and has invoked the metadata provider.
C3_RetriesMetadata ==
    (SecondRun /\ pipe = "server" /\ pc \in Terminal
       /\ prevRun.end = "raised" /\ prevRun.failedAt = "metadata"
       /\ "media" \in prevRun.wrote)
        => (calls["download"] = 0 /\ calls["metadata"] >= 1)

\* C4: directory-scan location.  When a run begins with one directory of
\* the identifier holding {id}.mkv and nothing else, and no other directory
\* holding anything of it, Locating finds the directory and the run invokes
\* none of the four providers.
C4_MediaAloneShortCircuits ==
    (pc \in Terminal
       /\ \E b \in Bases :
            startDisk[b] = {"media"} /\ \A c \in Bases \ {b} : startDisk[c] = {})
        => (located /\ calls = NoCalls)

\* The run has called the stage's function.
Entered(stage) == \E i \in 1..Len(order) : order[i] = stage

\* C11: optional-stage tolerance.  Once the transcript provider has reported
\* the transcript unavailable to a run, the transcript slot of the working
\* directory stays absent and the run does not end at the transcript stage:
\* when it has ended it has called the metadata stage, it has called the
\* summary stage if the metadata provider succeeded, and if the generator
\* returned output too it has ended Complete with the summary present.
C11_TranscriptOptional ==
    outs["transcript"] = "unavailable" =>
        /\ "transcript" \notin disk[vid][folder]
        /\ failedAt # "transcript"
        /\ pc \in Terminal =>
              /\ Entered("metadata")
              /\ outs["metadata"] = "ok" => Entered("summary")
              /\ (outs["metadata"] = "ok" /\ outs["summary"] \in Generated) =>
                    /\ pc = "complete"
                    /\ "summary" \in disk[vid][folder]

\* A run of ensure_video_content that found no transcript and ended Complete
\* with the summary written.
C11_Witness ==
    /\ pipe = "server" /\ pc = "complete" /\ outs["transcript"] = "unavailable"
    /\ "summary" \in wrote /\ "transcript" \notin disk[vid][folder]

\* C12: in every directory of every identifier, if the summary artifact is
\* present then the metadata artifact and the media artifact are present
\* (checked under SpecTools: runs of both pipelines and the tools, the
\* generation summarize_youtube_video does by itself included).
C12_SummaryImpliesMetadataAndMedia ==
    \A i \in Ids, b \in Bases :
        "summary" \in disk[i][b] => {"metadata", "media"} \subseteq disk[i][b]

\* summarize_youtube_video has generated the summary itself, after a run
\* that Locating short-circuited with the summary missing.
C12_Witness ==
    /\ resp = ToolResponse("summarize_youtube_video", FALSE)
    /\ located /\ toolCalls = 1 /\ wrote = {}
    /\ {"summary", "metadata", "media"} \subseteq disk[vid][folder]

\* The current run has ended because a stage failed.
Failed == pc \in {"raised", "incomplete"} /\ failedAt # "none"

\* C15: when the download provider has errored in a run, the run has failed
\* with an error raised to its caller, the provider was invoked once, and
\* none of the later stages has been called.
C15_DownloadFailureSurfaced ==
    outs["download"] = "error" =>
        /\ pc = "raised" /\ raisedErr # <<>>
        /\ calls["download"] = 1
        /\ \A st \in Stages \ {"download"} : ~Entered(st) /\ calls[st] = 0

\* C16: when the metadata provider has errored in a run, the run has
\* aborted with an error: the summary stage has not been called and the run
\* has written neither the metadata nor the summary artifact.
C16_MetadataFailureAborts ==
    (outs["metadata"] \notin {"none", "ok"}) =>
        /\ pc = "raised" /\ raisedErr # <<>>
        /\ ~Entered("summary") /\ calls["summary"] = 0
        /\ wrote \cap {"metadata", "summary"} = {}

\* C17: whenever the generator has returned output to the summary stage,
\* {id}.json has been written and the stage has succeeded (the run is
\* Complete): structured, without a warning, when the output parses; raw
\* text, with a warning logged, when it does not.
C17_OutputAlwaysPersisted ==
    outs["summary"] \in Generated =>
        /\ "summary" \in wrote /\ "summary" \in disk[vid][folder]
        /\ pc = "complete" /\ failedAt = "none"
        /\ outs["summary"] = "ok_json" => saved = [form |-> "structured", warned |-> FALSE]
        /\ outs["summary"] = "ok_text" => saved = [form |-> "raw", warned |-> TRUE]

\* The messages that wrap another error, the number of them in an error,
\* and the messages that only the given stage produces.
Wrappers == {"Failed to ensure video content", "Failed to download video",
             "Failed to fetch video metadata", "Failed to generate summary"}

WrapCount(err) == Cardinality({i \in 1..Len(err) : err[i] \in Wrappers})

StageTexts(stage) ==
    CASE stage = "download" ->
            {"Failed to download video", "yt-dlp is not installed", "CalledProcessError"}
      [] stage = "metadata" ->
            {"Failed to fetch video metadata", "RequestException",
             "No video data found for ID"}
      [] stage = "summary" ->
            {"Failed to generate summary", "Gemini error", "Prompt template not found",
             "FileNotFoundError metadata", "FileNotFoundError template"}
      [] OTHER -> {}

\* C18: a run ended by a failure of the download, metadata or summary stage
\* has raised an error to its caller; the error names the stage, ends with
\* the original cause (a message that is not itself a wrapper) and has
\* exactly one wrapper around it.
C18_SingleWrappedError ==
    (Failed /\ failedAt \in {"download", "metadata", "summary"}) =>
        /\ pc = "raised" /\ raisedErr # <<>>
        /\ \E i \in 1..Len(raisedErr) : raisedErr[i] \in StageTexts(failedAt)
        /\ raisedErr[Len(raisedErr)] \notin Wrappers
        /\ WrapCount(raisedErr) = 1

\* C19: the stages of a run are called in the order download, transcript,
\* metadata, summary, none twice, none before an earlier one: the calls made
\* so far are an initial part of that order; at most one stage is in
\* progress, and it is the one called last.
C19_StagesInOrder ==
    /\ Len(order) <= Len(StageOrder)
    /\ \A i \in 1..Len(order) : order[i] = StageOrder[i]
    /\ Cardinality(running) <= 1
    /\ \A st \in running : order # <<>> /\ st = order[Len(order)]

\* process_video is inside the generation block, after the three stages
\* before it have returned.
C19_Witness ==
    pipe = "cli" /\ order = StageOrder /\ running = {"summary"} /\ pc = "summary"

\* C20: no rollback in ensure_video_content.  At every point of a run,
\* aborted runs included, what was on disk for the identifier when it began
\* and what it has written is present; and the run after a run that raised,
\* for the same identifier, finds every artifact that run wrote, invokes the
\* provider of none of them and writes none of them again.
C20_NoRollback ==
    pipe = "server" =>
        /\ \A b \in Bases : startDisk[b] \subseteq disk[vid][b]
        /\ folder # "" => wrote \subseteq disk[vid][folder]
        /\ (SecondRun /\ prevRun.end = "raised") =>
              \A st \in Stages :
                  ArtifactOf(st) \in prevRun.wrote =>
                      /\ ArtifactOf(st) \in PresentAtStart
                      /\ calls[st] = 0
                      /\ ArtifactOf(st) \notin wrote

\* A run that raised in generate_summary, leaving media, transcript and
\* metadata, followed by a run that has ended.
C20_Witness ==
    /\ SecondRun /\ pipe = "server" /\ pc = "complete"
    /\ prevRun.end = "raised" /\ prevRun.failedAt = "summary"
    /\ prevRun.wrote = {"media", "transcript", "metadata"}
    /\ prevRun.wrote \subseteq disk[vid][folder]

\* The run before, of the same pipeline and for the same identifier, got past
\* the download stage and ended with no transcript in any directory of the
\* identifier: its transcript provider reported the transcript unavailable.
AfterRunWithoutTranscript ==
    SecondRun /\ "media" \in prevRun.wrote /\ "transcript" \notin PresentAtStart

\* C28: a transcript reported unavailable leaves no cache marker.  When the
\* run before ended with the transcript slot absent, the current run, unless
\* its download stage failed, has invoked the transcript provider again by
\* the time it ends.
C28_TranscriptRetriedOnNextRun ==
    (AfterRunWithoutTranscript /\ pc \in Terminal /\ failedAt # "download")
        => calls["transcript"] >= 1

\* C32: artifacts are write-once.  A run removes no artifact that was present
\* when it began, and writes no artifact that was present in its working
\* directory when it began: each stage only moves its slot from absent to
\* present.
C32_WriteOnce ==
    pc # "idle" =>
        /\ \A b \in Bases : startDisk[b] \subseteq disk[vid][b]
        /\ folder # "" => wrote \cap startDisk[folder] = {}

\* C33: the tools never raise.  Whatever a tool has given its caller is a
\* response, not an exception; when the ensure_video_content run underneath
\* raised, the response is marked isError; and a response without isError is
\* given only after a run that returned.
C33_ToolsNeverRaise ==
    resp # NoResp =>
        /\ resp.tool \in Tools
        /\ ~resp.raised
        /\ pc = "raised" => resp.isError
        /\ ~resp.isError => pc = "complete"

\* ask_about_youtube_video has answered with an error response a run that
\* raised in fetch_metadata.
C33_Witness ==
    /\ resp.isError /\ ~resp.raised /\ pc = "raised" /\ raisedErr # <<>>
    /\ resp.tool = "ask_about_youtube_video" /\ failedAt = "metadata"

\* summarize_youtube_video has answered the current run.
Summarized == resp.tool = "summarize_youtube_video"

\* C34: summarize_youtube_video makes up for the media-only location test.
\* Whenever it has answered without isError, {id}.json is present in the
\* run's directory; when the run was short-circuited with the summary
\* missing, the tool has called generate_summary itself, which needs the
\* metadata file: without it the answer is an error response and no summary
\* is written.
C34_SummarizeCompensates ==
    Summarized =>
        /\ ~resp.isError => "summary" \in disk[vid][folder]
        /\ (pc = "complete" /\ located /\ "summary" \notin startDisk[folder]) =>
              /\ "metadata" \notin disk[vid][folder]
                    => (resp.isError /\ toolCalls = 0
                          /\ "summary" \notin disk[vid][folder])
              /\ ~resp.isError => (toolCalls = 1 /\ "metadata" \in disk[vid][folder])

\* A run short-circuited on a directory holding media and metadata but no
\* summary; the tool generated the summary and answered with it.
C34_Witness ==
    /\ Summarized /\ ~resp.isError /\ located /\ wrote = {}
    /\ startDisk[folder] = {"media", "metadata"}
    /\ "summary" \in disk[vid][folder] /\ toolCalls = 1

\* The states of a run in the order of the state machine.
PcRank(p) ==
    CASE p = "locating" -> 0
      [] p = "downloading" -> 1
      [] p = "transcript" -> 2
      [] p = "metadata" -> 3
      [] p = "summary" -> 4
      [] p \in Terminal -> 5
      [] OTHER -> 6

InRun == pc \notin Terminal \cup {"idle"}

\* C35: every run begins in Locating; while it is in progress its state only
\* moves forward in the order Locating, Downloading, FetchingTranscript,
\* FetchingMetadata, GeneratingSummary, end, so that no state is entered
\* twice; it ends Complete or with the failure of one stage; and, every
\* provider returning or raising, every run in progress eventually ends.
C35_RunsTerminate ==
    /\ [][/\ (~InRun /\ pc' # pc) => pc' = "locating"
          /\ (InRun /\ pc' # pc) => PcRank(pc') > PcRank(pc)
          /\ (InRun /\ pc' \in Terminal)
                => (pc' = "complete" \/ failedAt' \in Stages)]_vars
    /\ [](\A st \in Stages : calls[st] <= 1)
    /\ InRun ~> (pc \in Terminal)

\* A run that went through all four stages and ended Complete.
C35_Witness ==
    /\ pc = "complete" /\ order = StageOrder /\ running = {}
    /\ wrote = {"media", "transcript", "metadata", "summary"}
    /\ \A st \in Stages : calls[st] = 1

(***************************************************************************)
(* Properties of concurrent runs (checked under SpecRaces)                 *)
(***************************************************************************)
\* Task t found no directory of its identifier and its download provider is
\* running.
Downloading(t) ==
    ~tasks[t].located /\ tasks[t].pc = "download" /\ tasks[t].busy

\* Both tasks are downloading the same identifier's media at the same time.
BothDownloading ==
    Downloading(1) /\ Downloading(2) /\ tasks[1].id = tasks[2].id

\* C29: no lock.  As long as no run has begun while another run for the
\* same identifier was in progress, the download provider is never running
\* twice at once for one identifier, no run that found no directory comes
\* upon the media at the existence test of download_video, and the media of
\* an identifier is downloaded at most once.
C29_SerialRunsDoNotRace ==
    ~overlapped =>
        /\ ~BothDownloading
        /\ \A t \in Tasks : tasks[t].dl # "skipped"
        /\ \A i \in Ids : downloads[i] <= 1

\* Two interleaved runs for one identifier: both found no directory and the
\* download provider is running for both.
C29_Witness == overlapped /\ BothDownloading

(***************************************************************************)
(* Properties of RetryingMCPClient (checked under SpecConnect)             *)
(***************************************************************************)
ConnectEnded == cpc \in {"returned", "raised", "fellthrough"}

\* C5: retry bound.  For max_retries >= 1, connect() never calls
\* mcp_server_tools more than max_retries times; when it returns, the number
\* of calls is the index of the first successful attempt (the failures
\* before it plus one) and it returns the capability list of that attempt;
\* when every attempt failed it ends raising, after exactly max_retries
\* calls.
C5_RetryBound ==
    max_retries >= 1 =>
        /\ ccalls <= max_retries
        /\ cpc = "returned" =>
              /\ ccalls = Len(errs) + 1
              /\ result.kind = "tools" /\ ~tools.none /\ result.list = tools.list
        /\ (ConnectEnded /\ cpc # "returned") =>
              /\ cpc = "raised"
              /\ ccalls = max_retries /\ Len(errs) = max_retries

\* max_retries = 3, two failures and a success on the third attempt.
C5_Witness ==
    max_retries = 3 /\ cpc = "returned" /\ ccalls = 3 /\ Len(errs) = 2

\* C6: when connect() raises, max_retries attempts have been made and all
\* have failed, and the error raised is the error of the last of them; and
\* when max_retries (>= 1) attempts have failed, connect() has raised, not
\* returned.
C6_RaisesLastError ==
    /\ cpc = "raised" =>
          /\ Len(errs) = max_retries /\ ccalls = max_retries
          /\ result.kind = "error" /\ result.err = errs[max_retries]
    /\ result.kind = "error" => cpc = "raised"
    /\ (max_retries >= 1 /\ Len(errs) = max_retries) => cpc = "raised"

\* Exhaustion in which the last error differs from the first.
C6_Witness ==
    cpc = "raised" /\ max_retries = 3 /\ errs[1] # errs[3] /\ result.err = errs[3]

\* C7: a get_tools() call on an instance none of whose connect() calls has
\* returned a capability list raises the not-connected error, calls
\* mcp_server_tools not at all, and changes nothing of the instance.
C7_GetToolsFailsFast ==
    [][(gets' = gets + 1 /\ okConnects = 0)
         => /\ got'.kind = "error" /\ got'.err = "NotConnected"
            /\ UNCHANGED <<max_retries, tools, cpc, attempt, ccalls, sleeps, errs,
                           result, connects, okConnects>>]_vars

\* get_tools() has raised after connect() ended in exhaustion.
C7_Witness ==
    gets >= 1 /\ got.kind = "error" /\ cpc = "raised" /\ okConnects = 0 /\ connects = 1

\* C25: connect() waits after a failed attempt exactly when attempts remain,
\* and before the next attempt.  While an attempt is in progress every earlier
\* failure has been followed by one wait; a wait is in progress only after a
\* failure with attempts remaining; a return after k failures has waited k
\* times; exhaustion has waited max_retries - 1 times, with no wait after the
\* last failure; and once an attempt has succeeded, no further
\* mcp_server_tools call and no wait occurs in that connect() call.
C25_WaitsBetweenAttempts ==
    /\ [](/\ cpc = "attempting" => (sleeps = Len(errs) /\ attempt = sleeps + 1)
          /\ cpc = "sleeping" => (attempt < max_retries /\ Len(errs) = attempt
                                    /\ sleeps = attempt - 1)
          /\ cpc = "returned" => (sleeps = Len(errs) /\ ccalls = sleeps + 1)
          /\ cpc = "raised" => (attempt = max_retries /\ sleeps = max_retries - 1
                                  /\ Len(errs) = max_retries))
    /\ [][(cpc = "returned" /\ connects' = connects)
            => (ccalls' = ccalls /\ sleeps' = sleeps /\ cpc' = "returned")]_vars

\* A return on the third attempt, after two failures and two waits.
C25_Witness ==
    max_retries = 3 /\ cpc = "returned" /\ Len(errs) = 2 /\ sleeps = 2 /\ attempt = 3

\* C26: every connect() call, for every max_retries, ends in one of two ways:
\* it returns a capability list or it raises an error.  It never ends
\* returning no list and raising nothing.
C26_EndsConnectedOrExhausted ==
    ConnectEnded =>
        \/ cpc = "returned" /\ result.kind = "tools"
        \/ cpc = "raised" /\ result.kind = "error"

\* C27: a connector is single-use.  Once a connect() call of the instance has
\* returned a capability list, no step changes self.tools and no step starts
\* a connection attempt.
C27_SingleUse ==
    [][okConnects >= 1 => (tools' = tools /\ cpc' # "attempting")]_vars

\* C31: a get_tools() call made when the last connect() call has returned a
\* capability list does not raise and returns exactly that list, whatever
\* the list is, the empty list included.
C31_GetToolsReturnsConnected ==
    [][(gets' = gets + 1 /\ cpc = "returned" /\ result.kind = "tools")
         => (got'.kind = "tools" /\ got'.list = result.list)]_vars

\* Trimming, written without the operators the model of str.strip uses: the
\* part of s from its first to its last symbol that is not white space.
RefTrim(s) ==
    LET solid == {i \in 1..Len(s) : ~IsSpace(s[i])} IN
    IF solid = {} THEN <<>>
    ELSE SubSeq(s, CHOOSE i \in solid : \A j \in solid : i <= j,
                   CHOOSE i \in solid : \A j \in solid : i >= j)

(***************************************************************************)
(* Properties of log_event (checked under SpecLog)                         *)
(***************************************************************************)
\* Events i and i+1 of the stream are both categorised ToolCallExecuted and
\* have the same clean text.
ExecutedPair(i) ==
    /\ trace[i].kind = "ToolCallExecuted" /\ trace[i + 1].kind = "ToolCallExecuted"
    /\ trace[i].clean = trace[i + 1].clean

\* C8 as stated: in a stream handled with the console enabled, any two
\* consecutive ToolCallExecuted events with identical clean text produce
\* exactly one console line and exactly one log line between them.
C8_Original ==
    (\A j \in 1..Len(trace) : trace[j].flag)
        => \A i \in 1..(Len(trace) - 1) :
              ExecutedPair(i)
                  => /\ trace[i].printed + trace[i + 1].printed = 1
                     /\ trace[i].logged + trace[i + 1].logged = 1

\* C8 (amended): of two consecutive ToolCallExecuted events with identical
\* clean text the second produces neither a console line nor a log line; the
\* first produces a log line (and, with the console enabled, a console line)
\* exactly when the cell did not already hold that text before it.
C8_SecondSuppressed ==
    \A i \in 1..(Len(trace) - 1) :
        ExecutedPair(i)
            => /\ trace[i + 1].printed = 0 /\ trace[i + 1].logged = 0
               /\ trace[i].logged =
                     (IF ~trace[i].cellBefore.none
                          /\ trace[i].cellBefore.text = trace[i].clean
                      THEN 0 ELSE 1)
               /\ trace[i].printed = (IF trace[i].flag THEN trace[i].logged ELSE 0)

\* Three identical ToolCallExecuted events in a row: the first pair produces
\* one line of each, the second pair none.
C8_Witness ==
    /\ Len(trace) = 3
    /\ ExecutedPair(1) /\ ExecutedPair(2)
    /\ trace[1].printed = 1 /\ trace[1].logged = 1
    /\ trace[2].printed + trace[3].printed = 0
    /\ trace[2].logged + trace[3].logged = 0

\* C9 as stated: every event produces a console line exactly when it
\* produces a log line.
C9_Original == \A i \in 1..Len(trace) : trace[i].printed = trace[i].logged

\* C9 (amended): every event handled with print_to_console set produces a
\* console line exactly when it produces a log line; an event handled with
\* print_to_console false produces no console line.
C9_TogetherWhenConsoleEnabled ==
    \A i \in 1..Len(trace) :
        /\ trace[i].printed \in {0, 1} /\ trace[i].logged \in {0, 1}
        /\ trace[i].flag => trace[i].printed = trace[i].logged
        /\ ~trace[i].flag => trace[i].printed = 0

\* An emitted event followed by a suppressed one, both with the console
\* enabled.
C9_Witness ==
    /\ Len(trace) >= 2
    /\ trace[1].flag /\ trace[1].printed = 1 /\ trace[1].logged = 1
    /\ trace[2].flag /\ trace[2].printed = 0 /\ trace[2].logged = 0

\* Call i of log_event could not parse the event's payload.
Unparsed(i) == ParseError(trace[i].ev) # "none"

AllKinds == {"UserInputRequested", "ToolCallRequested", "ToolCallExecuted",
             "ToolCallSummary", "TextMessage", "TaskResult", "Other"}

\* C13 as stated: no call of log_event raises, and every event whose payload
\* cannot be parsed gets as clean text the trimmed string form of the event,
\* is given a kind, and produces a log line.
C13_Original ==
    \A i \in 1..Len(trace) :
        /\ ~trace[i].raised
        /\ Unparsed(i) =>
              /\ trace[i].clean = RefTrim(StrEvent(trace[i].ev))
              /\ trace[i].kind \in AllKinds
              /\ trace[i].logged = 1

\* C13 (amended): no call of log_event raises; every event whose payload
\* cannot be parsed gets as clean text the trimmed string form of the event
\* and is given a kind; and it produces a log line unless it is a
\* ToolCallExecuted or ToolCallSummary event whose clean text equals the
\* deduplication cell, in which case it produces none.
C13_FallbackNeverRaises ==
    \A i \in 1..Len(trace) :
        /\ ~trace[i].raised
        /\ Unparsed(i) =>
              /\ trace[i].clean = RefTrim(StrEvent(trace[i].ev))
              /\ trace[i].kind \in AllKinds
              /\ trace[i].logged =
                    (IF trace[i].kind \in ToolKinds
                          /\ trace[i].cellBefore = [none |-> FALSE, text |-> trace[i].clean]
                     THEN 0 ELSE 1)

\* An event whose content is not a string (json.loads raises TypeError), one
\* whose string form has leading whitespace, and one with no content
\* attribute have all been handled and logged.
C13_Witness ==
    /\ Len(trace) = 3
    /\ trace[1].ev = Plain("ToolCallExecutionEvent", <<"r1">>)
    /\ trace[2].ev = Plain("HandoffMessage", <<" ", "r1">>)
    /\ trace[2].clean = <<"r1", "HandoffMessage">>
    /\ trace[3].ev = Ev("TaskResult", FALSE, <<"r1">>, FALSE, NoPayload)
    /\ \A i \in 1..3 : Unparsed(i) /\ ~trace[i].raised /\ trace[i].logged = 1

\* The cell when call i returned.
CellAfter(i) == IF i = Len(trace) THEN lastToolResult ELSE trace[i + 1].cellBefore

Holding(text) == [none |-> FALSE, text |-> text]

\* Calls i and i+1 handled one ToolCallExecuted and one ToolCallSummary event,
\* in either order, with the same clean text.
MixedPair(i) ==
    /\ {trace[i].kind, trace[i + 1].kind} = {"ToolCallExecuted", "ToolCallSummary"}
    /\ trace[i].clean = trace[i + 1].clean

\* C21: one slot for both kinds.  After every emitted ToolCallExecuted or
\* ToolCallSummary event the cell holds that event's clean text; and when a
\* ToolCallSummary event directly follows an emitted ToolCallExecuted event
\* with the same clean text, or the other way round, it produces neither a
\* console line nor a log line.
C21_SharedSlot ==
    \A i \in 1..Len(trace) :
        /\ (trace[i].kind \in {"ToolCallExecuted", "ToolCallSummary"}
              /\ trace[i].logged = 1)
                 => CellAfter(i) = Holding(trace[i].clean)
        /\ (i < Len(trace) /\ MixedPair(i) /\ trace[i].logged = 1)
                 => (trace[i + 1].logged = 0 /\ trace[i + 1].printed = 0)

\* An emitted ToolCallExecuted event, then a ToolCallSummary event with the
\* same text (suppressed), then the same ToolCallExecuted event again
\* (suppressed too).
C21_Witness ==
    /\ Len(trace) = 3
    /\ trace[1].kind = "ToolCallExecuted" /\ trace[1].logged = 1
    /\ trace[2].kind = "ToolCallSummary" /\ trace[2].logged = 0
    /\ trace[3].kind = "ToolCallExecuted" /\ trace[3].logged = 0
    /\ MixedPair(1) /\ MixedPair(2)
    /\ lastToolResult = Holding(trace[1].clean)

(***************************************************************************)
(* Properties of log_event over two streams (checked under SpecStreams)    *)
(***************************************************************************)
\* Call i was a tool-result event that log_event suppressed.
Suppressed(i) ==
    trace[i].kind \in ToolKinds /\ ~trace[i].raised /\ trace[i].logged = 0

\* Call j was a tool-result event that log_event emitted, so that its clean
\* text went into the cell.
EmittedToolResult(j) == trace[j].kind \in ToolKinds /\ trace[j].logged = 1

\* C14: the deduplication cell is scoped per stream.  Whenever a tool-result
\* event is suppressed, the cell it was compared with was last written for
\* an event of the same stream: the latest emitted tool-result event before
\* it belongs to its stream.
C14_NoCrossTalk ==
    \A i \in 1..Len(trace) :
        Suppressed(i) =>
            \E j \in 1..(i - 1) :
                /\ EmittedToolResult(j)
                /\ \A k \in (j + 1)..(i - 1) : ~EmittedToolResult(k)
                /\ trace[j].stream = trace[i].stream

(***************************************************************************)
(* Further properties of log_event (checked under SpecLog)                 *)
(***************************************************************************)
\* Call j handled an event classified as a tool result.
IsToolResult(j) == trace[j].kind \in {"ToolCallExecuted", "ToolCallSummary"}

\* The latest call before call i that emitted a tool-result event, 0 if none.
RECURSIVE LastEmittedBefore(_)
LastEmittedBefore(i) ==
    IF i <= 1 THEN 0
    ELSE IF IsToolResult(i - 1) /\ trace[i - 1].logged = 1 THEN i - 1
    ELSE LastEmittedBefore(i - 1)

\* C22: only consecutive duplicates are suppressed.  A tool-result event is
\* suppressed only if the event handled immediately before it was a
\* tool-result event with the same clean text; one that repeats an earlier
\* result after any other event in between is emitted.
C22_OnlyConsecutiveSuppressed ==
    \A i \in 1..Len(trace) :
        (IsToolResult(i) /\ trace[i].logged = 0)
            => /\ i > 1
               /\ IsToolResult(i - 1)
               /\ trace[i - 1].clean = trace[i].clean

\* The number of log lines, and of console lines, written by calls 1..i.
RECURSIVE LoggedUpTo(_)
LoggedUpTo(i) == IF i = 0 THEN 0 ELSE LoggedUpTo(i - 1) + trace[i].logged

RECURSIVE PrintedUpTo(_)
PrintedUpTo(i) == IF i = 0 THEN 0 ELSE PrintedUpTo(i - 1) + trace[i].printed

\* The text the claim gives for an event of a kind outside the tool results.
ExpectedLine(i) ==
    CASE trace[i].kind = "UserInputRequested" -> <<"[System]: Waiting for user input...">>
      [] trace[i].kind = "TaskResult" -> <<"[System]: Task completed.">>
      [] trace[i].kind \in {"TextMessage", "Other"} -> trace[i].clean
      [] OTHER -> logfile[LoggedUpTo(i)]

\* C23: an event of a kind other than ToolCallExecuted and ToolCallSummary is
\* emitted exactly once whatever the cell holds: one log line, and one console
\* line when the console flag is set.  The line is the fixed system message
\* for UserInputRequested and TaskResult, and the flattened text for
\* TextMessage and Other.
C23_OtherKindsAlwaysEmitted ==
    \A i \in 1..Len(trace) :
        trace[i].kind \notin {"ToolCallExecuted", "ToolCallSummary"} =>
            /\ trace[i].logged = 1
            /\ trace[i].printed = (IF trace[i].flag THEN 1 ELSE 0)
            /\ logfile[LoggedUpTo(i)] = ExpectedLine(i)
            /\ trace[i].flag => console[PrintedUpTo(i)] = <<NL>> \o ExpectedLine(i)

\* A tool result fills the cell; a TextMessage with the same clean text and a
\* TaskResult follow and are both emitted.
C23_Witness ==
    /\ Len(trace) = 3
    /\ trace[1].kind = "ToolCallExecuted" /\ trace[1].logged = 1
    /\ trace[2].kind = "TextMessage" /\ trace[2].clean = trace[1].clean
    /\ trace[2].cellBefore = Holding(trace[2].clean)
    /\ trace[2].logged = 1 /\ logfile[2] = trace[2].clean
    /\ trace[3].kind = "TaskResult" /\ trace[3].flag
    /\ logfile[3] = <<"[System]: Task completed.">>
    /\ console[PrintedUpTo(3)] = <<NL, "[System]: Task completed.">>

\* C24: classification is total and single-valued and follows the event's
\* own type: every handled event gets one kind of the closed set, the kind of
\* its class, whatever names occur inside its content.
C24_ClassifiedByOwnType ==
    \A i \in 1..Len(trace) :
        /\ trace[i].kind \in AllKinds
        /\ trace[i].kind = KindOf(trace[i].ev.type)

\* C30: the cell is unset while no tool-result event has been emitted and
\* otherwise holds the clean text of the latest emitted tool-result event; a
\* call for an event of another kind, or for a suppressed event, leaves it as
\* it was; once set it is never unset again.
C30_CellIsLastEmittedToolResult ==
    /\ LET j == LastEmittedBefore(Len(trace) + 1)
       IN  lastToolResult = IF j = 0 THEN NoneText ELSE Holding(trace[j].clean)
    /\ \A i \in 1..Len(trace) :
        /\ (~IsToolResult(i) \/ trace[i].logged = 0) => CellAfter(i) = trace[i].cellBefore
        /\ ~trace[i].cellBefore.none => ~CellAfter(i).none

\* An emitted tool result, then an emitted event of another kind, then a
\* suppressed tool result: the cell still holds the first one's text.
C30_Witness ==
    /\ Len(trace) = 3
    /\ IsToolResult(1) /\ trace[1].logged = 1 /\ trace[1].cellBefore = NoneText
    /\ ~IsToolResult(2) /\ trace[2].logged = 1
    /\ IsToolResult(3) /\ trace[3].logged = 0
    /\ lastToolResult = Holding(trace[1].clean)

(***************************************************************************)
(* Properties of clean_result (checked under SpecClean)                    *)
(***************************************************************************)
\* The reference: the flattening rules, written without the operators the
\* model of clean_result uses for trimming and joining.
RECURSIVE RefLines(_, _)
RefLines(parts, n) ==
    IF n = 0 THEN <<>>
    ELSE IF n = 1 THEN parts[1]
    ELSE RefLines(parts, n - 1) \o <<NL>> \o parts[n]

RECURSIVE RefFlatten(_)
RefFlatten(p) ==
    IF p.kind = "dict" /\ HasKey(p, "content") /\ Get(p, "content").kind = "list"
    THEN LET xs == Get(p, "content").items IN
         RefLines([i \in 1..Len(xs) |-> RefFlatten(xs[i])], Len(xs))
    ELSE IF p.kind = "dict" /\ HasKey(p, "content") THEN PyStr(Get(p, "content"))
    ELSE IF p.kind = "dict" /\ HasKey(p, "text") THEN PyStr(Get(p, "text"))
    ELSE IF p.kind = "dict"
    THEN LET members == SelectSeq(p.items, LAMBDA v : v.kind = "str") IN
         RefLines([i \in 1..Len(members) |-> members[i].str], Len(members))
    ELSE IF p.kind = "list"
    THEN RefLines([i \in 1..Len(p.items) |-> RefFlatten(p.items[i])], Len(p.items))
    ELSE IF p.kind = "str" THEN RefTrim(p.str)
    ELSE PyStr(p)

\* C10: for every payload, clean_result returns what the flattening rules
\* give; for {"content": [{"text": "a"}, {"text": "b"}]} that is a, newline, b.
C10_FlatteningCorrect ==
    cleanPc = "done" =>
        /\ cleaned = RefFlatten(payload)
        /\ payload = ExamplePayload => cleaned = <<"a", NL, "b">>

\* clean_result has returned for the example payload.
C10_Witness ==
    cleanPc = "done" /\ payload = ExamplePayload /\ cleaned = <<"a", NL, "b">>

====
